---- MODULE Spec2Model ----
(***************************************************************************)
(* Grammar and highlight-query resolution of shared/src/language.rs:       *)
(* Language::tree_sitter_language, Language::tree_sitter_grammar_config,   *)
(* Language::highlight_query and the two query providers behind it.        *)
(*                                                                         *)
(* Texts are TLA+ strings; Len, SubSeq and \o act on them character by     *)
(* character.  Option<T> is a record: None, or Some(v).                    *)
(***************************************************************************)
EXTENDS Naturals, Sequences, FiniteSets

VARIABLES
    \* ---- resolution of several Languages (Spec) ----
    languages,          \* the configured Languages, by slot
    highlight_queries,  \* community query store: grammar id -> Option<raw query>
    grammars,           \* grammar ids that grammar::get_language can load
    runtime_files,      \* grammar ids whose runtime highlights.scm can be loaded
    results,            \* slot -> Pending, or what highlight_query returned
    traces,             \* slot -> the collaborator calls that highlight_query made
    \* ---- grammar resolution of one Language (SpecGrammar) ----
    language,           \* the Language under resolution
    handle,             \* Pending, or what tree_sitter_language returned
    remote,             \* Pending, or what tree_sitter_grammar_config returned
    \* ---- the community-query text transform (SpecTransform) ----
    query,              \* the raw community query text
    once,               \* Pending, or Some(transform of query)
    twice,              \* Pending, or Some(transform of the transform)
    text,               \* query rewritten by the substitutions applied so far
    pending             \* the substitutions not yet applied to text

vars == << languages, highlight_queries, grammars, runtime_files, results, traces,
           language, handle, remote, query, once, twice, text, pending >>

resolutionVars == << languages, highlight_queries, grammars, runtime_files, results, traces >>
grammarVars == << language, handle, remote >>
transformVars == << query, once, twice, text, pending >>

----------------------------------------------------------------------------
(* Option<T> *)

None == [tag |-> "None"]
Some(v) == [tag |-> "Some", val |-> v]
Pending == [tag |-> "Pending"]
IsSome(o) == o.tag = "Some"

----------------------------------------------------------------------------
(* str::replace: every non-overlapping match of `from`, found left to      *)
(* right in the original text, becomes `to`.                               *)

RECURSIVE replace_from(_, _, _, _)
replace_from(s, i, from, to) ==
    IF i + Len(from) - 1 > Len(s) THEN SubSeq(s, i, Len(s))
    ELSE IF SubSeq(s, i, i + Len(from) - 1) = from
         THEN to \o replace_from(s, i + Len(from), from, to)
         ELSE SubSeq(s, i, i) \o replace_from(s, i + 1, from, to)

replace(s, from, to) == replace_from(s, 1, from, to)

\* The six literal substitutions, in the order of the .replace chain.
Substitutions ==
    << << "lua-match", "match" >>,
       << "vim-match", "match" >>,
       << "@none", "" >>,
       << "@conceal", "" >>,
       << "@spell", "" >>,
       << "@nospell", "" >> >>

substitute(s, i) == replace(s, Substitutions[i][1], Substitutions[i][2])

\* A chain that renames @nospell to @spell instead of removing it.
transform_renaming(q) ==
    replace(replace(replace(replace(replace(replace(q,
        "lua-match", "match"),
        "vim-match", "match"),
        "@none", ""),
        "@conceal", ""),
        "@spell", ""),
        "@nospell", "@spell")

\* A chain that lacks the vim-match replacement.
transform_no_vim(q) ==
    replace(replace(replace(replace(replace(q,
        "lua-match", "match"),
        "@none", ""),
        "@conceal", ""),
        "@spell", ""),
        "@nospell", "")

\* A chain that lacks the @conceal removal.
transform_no_conceal(q) ==
    replace(replace(replace(replace(replace(q,
        "lua-match", "match"),
        "vim-match", "match"),
        "@none", ""),
        "@spell", ""),
        "@nospell", "")

\* The text transform of highlight_query_nvim_treesitter.
transform(q) ==
    replace(replace(replace(replace(replace(replace(q,
        "lua-match", "match"),
        "vim-match", "match"),
        "@none", ""),
        "@conceal", ""),
        "@spell", ""),
        "@nospell", "")

----------------------------------------------------------------------------
(* The data model: Language, GrammarConfig, GrammarConfigKind and the      *)
(* closed enum of grammars linked into the binary.                         *)

\* enum CargoLinkedTreesitterLanguage, in declaration order.
CargoLinkedTreesitterLanguage ==
    << "Typescript", "TSX", "Python", "Julia", "Scheme", "OCaml",
       "OCamlInterface", "Rust", "Graphql", "Javascript", "JSX", "Svelte",
       "JSON", "YAML", "HTML", "XML", "Zig", "Markdown", "Go", "Lua",
       "Gleam", "Bash", "C", "CPP", "CSS", "Ruby", "Nix", "Fish", "Diff",
       "Elixir", "Swift", "Heex", "Toml", "KiQuickfix", "Haskell", "Hcl" >>

CargoLinkedMembers ==
    { CargoLinkedTreesitterLanguage[i] : i \in 1 .. Len(CargoLinkedTreesitterLanguage) }

Ok(v) == [tag |-> "Ok", val |-> v]
Err == [tag |-> "Err"]
\* Result::ok
ok(r) == IF r.tag = "Ok" THEN Some(r.val) ELSE None

CargoLinked(member) == [tag |-> "CargoLinked", language |-> member]
FromSource(url, commit, subpath) ==
    [tag |-> "FromSource", url |-> url, commit |-> commit, subpath |-> subpath]
GrammarConfig(id, kind) == [id |-> id, kind |-> kind]

\* struct Language, reduced to the field that grammar and query resolution read.
Language(config) == [tree_sitter_grammar_config |-> config]

\* Language::new(): no grammar config.
Language_new == Language(None)

\* CargoLinkedTreesitterLanguage::to_tree_sitter_language: the linked grammar.
to_tree_sitter_language(member) ==
    CASE member = "Typescript" -> "tree_sitter_typescript::LANGUAGE_TYPESCRIPT"
      [] member = "TSX" -> "tree_sitter_typescript::LANGUAGE_TSX"
      [] member = "Python" -> "tree_sitter_python::LANGUAGE"
      [] member = "Julia" -> "tree_sitter_julia::LANGUAGE"
      [] member = "Scheme" -> "tree_sitter_scheme::LANGUAGE"
      [] member = "OCaml" -> "tree_sitter_ocaml::LANGUAGE_OCAML"
      [] member = "OCamlInterface" -> "tree_sitter_ocaml::LANGUAGE_OCAML_INTERFACE"
      [] member = "Rust" -> "tree_sitter_rust::LANGUAGE"
      [] member = "Graphql" -> "tree_sitter_graphql::LANGUAGE"
      [] member = "Javascript" -> "tree_sitter_javascript::LANGUAGE"
      [] member = "JSX" -> "tree_sitter_javascript::LANGUAGE"
      [] member = "Svelte" -> "tree_sitter_svelte_ng::LANGUAGE"
      [] member = "JSON" -> "tree_sitter_json::LANGUAGE"
      [] member = "YAML" -> "tree_sitter_yaml::LANGUAGE"
      [] member = "HTML" -> "tree_sitter_html::LANGUAGE"
      [] member = "XML" -> "tree_sitter_xml::LANGUAGE_XML"
      [] member = "Zig" -> "tree_sitter_zig::LANGUAGE"
      [] member = "Markdown" -> "tree_sitter_md::LANGUAGE"
      [] member = "Go" -> "tree_sitter_go::LANGUAGE"
      [] member = "Lua" -> "tree_sitter_lua::LANGUAGE"
      [] member = "Gleam" -> "tree_sitter_gleam::LANGUAGE"
      [] member = "Bash" -> "tree_sitter_bash::LANGUAGE"
      [] member = "C" -> "tree_sitter_c::LANGUAGE"
      [] member = "CPP" -> "tree_sitter_cpp::LANGUAGE"
      [] member = "CSS" -> "tree_sitter_css::LANGUAGE"
      [] member = "Ruby" -> "tree_sitter_ruby::LANGUAGE"
      [] member = "Nix" -> "tree_sitter_nix::LANGUAGE"
      [] member = "Fish" -> "tree_sitter_fish::language"
      [] member = "Diff" -> "tree_sitter_diff::LANGUAGE"
      [] member = "Elixir" -> "tree_sitter_elixir::LANGUAGE"
      [] member = "Swift" -> "tree_sitter_swift::LANGUAGE"
      [] member = "Heex" -> "tree_sitter_heex::LANGUAGE"
      [] member = "Toml" -> "tree_sitter_toml_ng::LANGUAGE"
      [] member = "KiQuickfix" -> "tree_sitter_quickfix::language"
      [] member = "Haskell" -> "tree_sitter_haskell::LANGUAGE"
      [] member = "Hcl" -> "tree_sitter_hcl::LANGUAGE"

\* CargoLinkedTreesitterLanguage::default_highlight_query: the query bundled
\* with the linked grammar, if it bundles one.
default_highlight_query(member) ==
    CASE member = "Typescript" -> Some("tree_sitter_typescript::HIGHLIGHTS_QUERY")
      [] member = "TSX" -> Some("tree_sitter_typescript::HIGHLIGHTS_QUERY")
      [] member = "Python" -> Some("tree_sitter_python::HIGHLIGHTS_QUERY")
      [] member = "Julia" -> None
      [] member = "Scheme" -> Some("tree_sitter_scheme::HIGHLIGHTS_QUERY")
      [] member = "OCaml" -> Some("tree_sitter_ocaml::HIGHLIGHTS_QUERY")
      [] member = "OCamlInterface" -> Some("tree_sitter_ocaml::HIGHLIGHTS_QUERY")
      [] member = "Rust" -> Some("tree_sitter_rust::HIGHLIGHTS_QUERY")
      [] member = "Graphql" -> None
      [] member = "Javascript" -> Some("tree_sitter_javascript::HIGHLIGHT_QUERY")
      [] member = "JSX" -> Some("tree_sitter_javascript::HIGHLIGHT_QUERY")
      [] member = "Svelte" -> Some("tree_sitter_svelte_ng::HIGHLIGHTS_QUERY")
      [] member = "JSON" -> Some("tree_sitter_json::HIGHLIGHTS_QUERY")
      [] member = "YAML" -> Some("tree_sitter_yaml::HIGHLIGHTS_QUERY")
      [] member = "HTML" -> Some("tree_sitter_html::HIGHLIGHTS_QUERY")
      [] member = "XML" -> Some("tree_sitter_xml::XML_HIGHLIGHT_QUERY")
      [] member = "Zig" -> Some("tree_sitter_zig::HIGHLIGHTS_QUERY")
      [] member = "Markdown" -> Some("tree_sitter_md::HIGHLIGHT_QUERY_BLOCK")
      [] member = "Go" -> Some("tree_sitter_go::HIGHLIGHTS_QUERY")
      [] member = "Lua" -> Some("tree_sitter_lua::HIGHLIGHTS_QUERY")
      [] member = "Gleam" -> Some("tree_sitter_gleam::HIGHLIGHT_QUERY")
      [] member = "Bash" -> Some("tree_sitter_bash::HIGHLIGHT_QUERY")
      [] member = "C" -> Some("tree_sitter_c::HIGHLIGHT_QUERY")
      [] member = "CPP" -> Some("tree_sitter_cpp::HIGHLIGHT_QUERY")
      [] member = "CSS" -> Some("tree_sitter_css::HIGHLIGHTS_QUERY")
      [] member = "Ruby" -> Some("tree_sitter_ruby::HIGHLIGHTS_QUERY")
      [] member = "Nix" -> Some("tree_sitter_nix::HIGHLIGHTS_QUERY")
      [] member = "Fish" -> Some("tree_sitter_fish::HIGHLIGHTS_QUERY")
      [] member = "Diff" -> Some("tree_sitter_diff::HIGHLIGHTS_QUERY")
      [] member = "Elixir" -> Some("tree_sitter_elixir::HIGHLIGHTS_QUERY")
      [] member = "Swift" -> Some("tree_sitter_swift::HIGHLIGHTS_QUERY")
      [] member = "Heex" -> Some("tree_sitter_heex::HIGHLIGHTS_QUERY")
      [] member = "Toml" -> Some("tree_sitter_toml_ng::HIGHLIGHTS_QUERY")
      [] member = "KiQuickfix" -> Some(" (header) @keyword")
      [] member = "Haskell" -> Some("tree_sitter_haskell::HIGHLIGHTS_QUERY")
      [] member = "Hcl" -> None

----------------------------------------------------------------------------
(* The collaborators, as the environment answers them, and the record of   *)
(* a call: which collaborator, on what, and what came back.                *)

Call(fn, arg, ret) == [fn |-> fn, arg |-> arg, ret |-> ret]

\* What a method returned together with the collaborator calls it made.
Returned(ret, calls) == [ret |-> ret, calls |-> calls]

\* crate::ts_highlight_query::get_highlight_query(id), its `.query` taken.
get_highlight_query(id) == highlight_queries[id]

\* grammar::grammar::get_language(id).
get_language(id) == IF id \in grammars THEN Ok("grammar::get_language:" \o id) ELSE Err

\* grammar::grammar::load_runtime_file(id, filename).
load_runtime_file(id, filename) ==
    IF id \in runtime_files THEN Ok("runtime/queries/" \o id \o "/" \o filename) ELSE Err

\* tree_sitter::Query::new(language, source); `compiles` is the engine's verdict.
Query_new(source, compiles) ==
    Call("Query::new", source, IF compiles THEN Some("Query") ELSE None)

\* log::error!: the fallback is reported under the grammar id.
log_error(id) == Call("log::error", id, None)

----------------------------------------------------------------------------
(* impl Language *)

\* A resolution that loads every grammar through get_language, linked or not.
tree_sitter_language_always_loading(lang) ==
    LET config == lang.tree_sitter_grammar_config
    IN  IF config = None THEN Returned(None, << >>)
        ELSE LET loaded == ok(get_language(config.val.id))
             IN  Returned(loaded, << Call("get_language", config.val.id, loaded) >>)

\* Language::tree_sitter_language
tree_sitter_language(lang) ==
    LET config == lang.tree_sitter_grammar_config
    IN  IF config = None THEN Returned(None, << >>)
        ELSE IF config.val.kind.tag = "CargoLinked"
        THEN Returned(Some(to_tree_sitter_language(config.val.kind.language)), << >>)
        ELSE LET loaded == ok(get_language(config.val.id))
             IN  Returned(loaded, << Call("get_language", config.val.id, loaded) >>)

\* GrammarConfiguration::remote(id, url, commit, subpath)
GrammarConfiguration_remote(id, url, commit, subpath) ==
    [grammar_id |-> id, url |-> url, commit |-> commit, subpath |-> subpath]

\* Language::tree_sitter_grammar_config
tree_sitter_grammar_config(lang) ==
    LET config == lang.tree_sitter_grammar_config
    IN  IF config = None THEN None
        ELSE IF config.val.kind.tag = "CargoLinked" THEN None
        ELSE Some(GrammarConfiguration_remote(config.val.id, config.val.kind.url,
                      config.val.kind.commit, config.val.kind.subpath))

\* Language::tree_sitter_grammar_id
tree_sitter_grammar_id(lang) ==
    LET config == lang.tree_sitter_grammar_config
    IN  IF config = None THEN None ELSE Some(config.val.id)

\* A community lookup that hands the raw query on, untransformed.
highlight_query_nvim_treesitter_raw(lang) ==
    LET config == lang.tree_sitter_grammar_config
    IN  IF config = None THEN Returned(None, << >>)
        ELSE LET found == get_highlight_query(config.val.id)
             IN  Returned(found, << Call("get_highlight_query", config.val.id, found) >>)

\* Language::highlight_query_nvim_treesitter
highlight_query_nvim_treesitter(lang) ==
    LET config == lang.tree_sitter_grammar_config
    IN  IF config = None THEN Returned(None, << >>)
        ELSE LET found == get_highlight_query(config.val.id)
             IN  Returned(IF found = None THEN None ELSE Some(transform(found.val)),
                          << Call("get_highlight_query", config.val.id, found) >>)

\* A default provider that asks the runtime file loader before it looks at
\* the grammar config.
highlight_query_default_eager(lang) ==
    LET config == lang.tree_sitter_grammar_config
        id == IF config = None THEN "" ELSE config.val.id
        file == ok(load_runtime_file(id, "highlights.scm"))
    IN  IF config # None /\ config.val.kind.tag = "CargoLinked"
        THEN LET bundled == default_highlight_query(config.val.kind.language)
             IN  Returned(bundled,
                          << Call("default_highlight_query", config.val.kind.language, bundled) >>)
        ELSE Returned(IF config = None THEN None ELSE file,
                      << Call("load_runtime_file", id, file) >>)

\* Language::highlight_query_default
highlight_query_default(lang) ==
    LET config == lang.tree_sitter_grammar_config
    IN  IF config = None THEN Returned(None, << >>)
        ELSE IF config.val.kind.tag = "CargoLinked"
        THEN LET bundled == default_highlight_query(config.val.kind.language)
             IN  Returned(bundled,
                          << Call("default_highlight_query", config.val.kind.language, bundled) >>)
        ELSE LET id == tree_sitter_grammar_id(lang)
             IN  IF id = None THEN Returned(None, << >>)
                 ELSE LET file == ok(load_runtime_file(id.val, "highlights.scm"))
                      IN  Returned(file, << Call("load_runtime_file", id.val, file) >>)

NumLanguages == 2

Slots == 1 .. NumLanguages

\* A call of get_language that came back with an error.
LoadFailed(call) == call.fn = "get_language" /\ call.ret = None

\* A resolver that stops trying once any grammar failed to load.
highlight_query_poisoned(lang, compiles) ==
    IF \E s \in Slots : \E i \in DOMAIN traces[s] : LoadFailed(traces[s][i])
    THEN Returned(None, << >>)
    ELSE LET nvim == highlight_query_nvim_treesitter(lang)
             default == highlight_query_default(lang)
         IN  IF IsSome(nvim.ret)
             THEN LET grammar == tree_sitter_language(lang)
                  IN  IF grammar.ret = None
                      THEN Returned(None, nvim.calls \o grammar.calls)
                      ELSE IF compiles
                      THEN Returned(nvim.ret, nvim.calls \o grammar.calls
                                        \o << Query_new(nvim.ret.val, compiles) >>)
                      ELSE Returned(default.ret, nvim.calls \o grammar.calls
                                        \o << Query_new(nvim.ret.val, compiles) >>
                                        \o default.calls)
             ELSE Returned(default.ret, nvim.calls \o default.calls)

\* A resolver that gives up, instead of falling back, when the community
\* query does not compile.
highlight_query_no_fallback(lang, compiles) ==
    LET nvim == highlight_query_nvim_treesitter(lang)
        default == highlight_query_default(lang)
    IN  IF IsSome(nvim.ret)
        THEN LET grammar == tree_sitter_language(lang)
             IN  IF grammar.ret = None
                 THEN Returned(None, nvim.calls \o grammar.calls)
                 ELSE Returned(IF compiles THEN nvim.ret ELSE None,
                               nvim.calls \o grammar.calls
                                   \o << Query_new(nvim.ret.val, compiles) >>)
        ELSE Returned(default.ret, nvim.calls \o default.calls)

\* A resolver that compiles the default candidate too and drops it when
\* it does not compile.
highlight_query_validating_default(lang, compiles) ==
    LET nvim == highlight_query_nvim_treesitter(lang)
        default == highlight_query_default(lang)
        grammar == tree_sitter_language(lang)
        checked ==
            IF IsSome(default.ret) /\ IsSome(grammar.ret)
            THEN Returned(IF compiles THEN default.ret ELSE None,
                          default.calls \o << Query_new(default.ret.val, compiles) >>)
            ELSE default
    IN  IF IsSome(nvim.ret)
        THEN IF grammar.ret = None
             THEN Returned(None, nvim.calls \o grammar.calls)
             ELSE IF compiles
             THEN Returned(nvim.ret, nvim.calls \o grammar.calls
                               \o << Query_new(nvim.ret.val, compiles) >>)
             ELSE Returned(checked.ret, nvim.calls \o grammar.calls
                               \o << Query_new(nvim.ret.val, compiles) >>
                               \o checked.calls)
        ELSE Returned(checked.ret, nvim.calls \o checked.calls)

\* Language::highlight_query.  The community query comes first; the grammar
\* is resolved only to compile it, and `?` returns None when it is missing.
\* A query that does not compile is logged (the log line reads the config id,
\* with a `?` of its own) and the default provider is asked.
highlight_query(lang, compiles) ==
    LET nvim == highlight_query_nvim_treesitter(lang)
        default == highlight_query_default(lang)
    IN  IF IsSome(nvim.ret)
        THEN LET grammar == tree_sitter_language(lang)
             IN  IF grammar.ret = None
                 THEN Returned(None, nvim.calls \o grammar.calls)
                 ELSE IF compiles
                 THEN Returned(nvim.ret, nvim.calls \o grammar.calls
                                   \o << Query_new(nvim.ret.val, compiles) >>)
                 ELSE IF lang.tree_sitter_grammar_config = None
                 THEN Returned(None, nvim.calls \o grammar.calls
                                   \o << Query_new(nvim.ret.val, compiles) >>)
                 ELSE Returned(default.ret, nvim.calls \o grammar.calls
                                   \o << Query_new(nvim.ret.val, compiles),
                                          log_error(lang.tree_sitter_grammar_config.val.id) >>
                                   \o default.calls)
        ELSE Returned(default.ret, nvim.calls \o default.calls)

----------------------------------------------------------------------------
(* Spec: highlight queries are resolved for the configured Languages, one  *)
(* call of highlight_query each, in any order.                             *)

\* Grammar ids in use.
GrammarIds == { "rust", "kdl" }

\* Linked grammars that appear in the configurations: one that bundles a
\* default query and one that does not.
ConfiguredMembers == { "Rust", "Julia" }

\* What the community query store may hold for a grammar id.
CommunityQueries == { "#lua-match?" }

RemoteKinds == { FromSource("https://github.com/tree-sitter/grammar", "0a1b2c3", None) }

GrammarConfigs(members) ==
    { GrammarConfig(id, kind) :
        id \in GrammarIds,
        kind \in { CargoLinked(m) : m \in members } \cup RemoteKinds }

Languages(members) ==
    { Language_new } \cup { Language(Some(c)) : c \in GrammarConfigs(members) }

Option(S) == { None } \cup { Some(v) : v \in S }

IdleTransform ==
    /\ query = ""
    /\ once = Pending
    /\ twice = Pending
    /\ text = ""
    /\ pending = { }

IdleGrammar ==
    /\ language = Language_new
    /\ handle = Pending
    /\ remote = Pending

IdleResolution ==
    /\ languages = [s \in Slots |-> Language_new]
    /\ highlight_queries = [id \in GrammarIds |-> None]
    /\ runtime_files = { }
    /\ results = [s \in Slots |-> Pending]
    /\ traces = [s \in Slots |-> << >>]

Init ==
    /\ languages \in [Slots -> Languages(ConfiguredMembers)]
    /\ highlight_queries \in [GrammarIds -> Option(CommunityQueries)]
    /\ grammars \in SUBSET GrammarIds
    /\ runtime_files \in SUBSET GrammarIds
    /\ results = [s \in Slots |-> Pending]
    /\ traces = [s \in Slots |-> << >>]
    /\ IdleGrammar
    /\ IdleTransform

\* One call of highlight_query on the Language in slot s.
HighlightQuery(s) ==
    /\ results[s] = Pending
    /\ \E compiles \in BOOLEAN :
          LET r == highlight_query(languages[s], compiles)
          IN  /\ results' = [results EXCEPT ![s] = r.ret]
              /\ traces' = [traces EXCEPT ![s] = r.calls]
    /\ UNCHANGED << languages, highlight_queries, grammars, runtime_files >>
    /\ UNCHANGED grammarVars
    /\ UNCHANGED transformVars

Next == \E s \in Slots : HighlightQuery(s)

Spec == Init /\ [][Next]_vars

----------------------------------------------------------------------------
(* SpecGrammar: the grammar of one Language is resolved, over every member *)
(* of the enum, every id and every state of the external loader.           *)

InitGrammar ==
    /\ language \in Languages(CargoLinkedMembers)
    /\ grammars \in SUBSET GrammarIds
    /\ handle = Pending
    /\ remote = Pending
    /\ IdleResolution
    /\ IdleTransform

TreeSitterLanguage ==
    /\ handle = Pending
    /\ handle' = tree_sitter_language(language).ret
    /\ UNCHANGED << language, remote, grammars >>
    /\ UNCHANGED << languages, highlight_queries, runtime_files, results, traces >>
    /\ UNCHANGED transformVars

TreeSitterGrammarConfig ==
    /\ remote = Pending
    /\ remote' = tree_sitter_grammar_config(language)
    /\ UNCHANGED << language, handle, grammars >>
    /\ UNCHANGED << languages, highlight_queries, runtime_files, results, traces >>
    /\ UNCHANGED transformVars

NextGrammar == TreeSitterLanguage \/ TreeSitterGrammarConfig

SpecGrammar == InitGrammar /\ [][NextGrammar]_vars

----------------------------------------------------------------------------
(* The transform on its own: SpecTransform draws a raw query, applies the  *)
(* chain once and once more, then applies the six substitutions to the raw *)
(* query again, one at a time in an arbitrary order.                       *)

MaxFragments == 3

\* Pieces of query text: the six literals, a piece that splices into one of
\* them, and a separator.
Fragments ==
    { "lua-match", "vim-match", "@none", "@conceal", "@spell", "@nospell",
      "lua-", " " }

RECURSIVE Texts(_)
Texts(n) ==
    IF n = 0 THEN { "" }
    ELSE LET shorter == Texts(n - 1)
         IN  shorter \cup { s \o f : s \in shorter, f \in Fragments }

AllSubstitutions == 1 .. Len(Substitutions)

InitTransform ==
    /\ query \in Texts(MaxFragments)
    /\ once = Pending
    /\ twice = Pending
    /\ text = query
    /\ pending = AllSubstitutions
    /\ grammars = { }
    /\ IdleResolution
    /\ IdleGrammar

\* highlight_query_nvim_treesitter's rewrite of the raw community query.
Transform ==
    /\ once = Pending
    /\ once' = Some(transform(query))
    /\ UNCHANGED << query, twice, text, pending >>
    /\ UNCHANGED << resolutionVars, grammarVars >>

\* The rewrite applied to its own output.
TransformAgain ==
    /\ IsSome(once)
    /\ twice = Pending
    /\ twice' = Some(transform(once.val))
    /\ UNCHANGED << query, once, text, pending >>
    /\ UNCHANGED << resolutionVars, grammarVars >>

\* One .replace of the chain, taken out of order.
ApplySubstitution(i) ==
    /\ IsSome(twice)
    /\ i \in pending
    /\ text' = substitute(text, i)
    /\ pending' = pending \ { i }
    /\ UNCHANGED << query, once, twice >>
    /\ UNCHANGED << resolutionVars, grammarVars >>

NextTransform ==
    \/ Transform
    \/ TransformAgain
    \/ \E i \in AllSubstitutions : ApplySubstitution(i)

SpecTransform == InitTransform /\ [][NextTransform]_vars

----------------------------------------------------------------------------
(* Properties of highlight_query, checked under Spec.                      *)

Resolved(s) == results[s] # Pending
Config(s) == languages[s].tree_sitter_grammar_config
HasConfig(s) == Config(s) # None
IdOf(s) == Config(s).val.id
IsCargoLinked(s) == HasConfig(s) /\ Config(s).val.kind.tag = "CargoLinked"
IsFromSource(s) == HasConfig(s) /\ Config(s).val.kind.tag = "FromSource"

\* The grammar handle can be had: linked in, or loadable by get_language.
GrammarResolves(s) == IsCargoLinked(s) \/ (IsFromSource(s) /\ IdOf(s) \in grammars)

\* What the community query store holds for the Language's grammar id.
Community(s) == highlight_queries[IdOf(s)]

\* The rewritten text of each query the store may hold.
Rewritten == [q \in CommunityQueries |-> transform(q)]

\* What the default provider has for the Language.
DefaultCandidate(s) ==
    IF IsCargoLinked(s) THEN default_highlight_query(Config(s).val.kind.language)
    ELSE IF IdOf(s) \in runtime_files
    THEN Some("runtime/queries/" \o IdOf(s) \o "/highlights.scm")
    ELSE None

CallsOf(s, fns) == { i \in DOMAIN traces[s] : traces[s][i].fn \in fns }
CompilerCalls(s) == CallsOf(s, { "Query::new" })
DefaultCalls(s) == CallsOf(s, { "default_highlight_query", "load_runtime_file" })
Compiled(s) == \E i \in CompilerCalls(s) : IsSome(traces[s][i].ret)
CompileFailed(s) == \E i \in CompilerCalls(s) : traces[s][i].ret = None

\* C1: when the grammar config is present, the grammar resolves, the community
\* query exists and its transformed text compiles, highlight_query returns
\* exactly the transformed community text and never the default query,
\* whether or not a default query exists.
C1_CommunityQueryPreferred ==
    \A s \in Slots :
        (Resolved(s) /\ HasConfig(s) /\ GrammarResolves(s)
            /\ IsSome(Community(s)) /\ Compiled(s))
        => /\ results[s] = Some(Rewritten[Community(s).val])
           /\ results[s] # DefaultCandidate(s)

\* C1 happens: a Language with a default query got the rewritten community text.
C1_Witness ==
    \E s \in Slots :
        /\ Resolved(s) /\ GrammarResolves(s) /\ IsSome(Community(s)) /\ Compiled(s)
        /\ IsSome(DefaultCandidate(s))
        /\ results[s] = Some("#match?")

\* C2: when the grammar resolves and the community query exists but does not
\* compile, highlight_query returns the default query if the default provider
\* has one and None otherwise; the compilation error is not returned.
C2_CompileFailureFallsBack ==
    \A s \in Slots :
        (Resolved(s) /\ GrammarResolves(s) /\ IsSome(Community(s)) /\ CompileFailed(s))
        => /\ results[s] = DefaultCandidate(s)
           /\ results[s].tag \in { "Some", "None" }

\* C2 happens: after a failed compilation one Language got its default query
\* and another, which has none, got None.
C2_Witness ==
    \E s, t \in Slots :
        /\ GrammarResolves(s) /\ IsSome(Community(s)) /\ CompileFailed(s)
        /\ IsSome(results[s])
        /\ GrammarResolves(t) /\ IsSome(Community(t)) /\ CompileFailed(t)
        /\ results[t] = None

\* C3: for a FromSource Language whose grammar cannot be loaded, highlight_query
\* returns None whatever the providers hold: with or without a community
\* query, and also when the runtime highlights.scm can be loaded.
C3_GrammarFailureDisables ==
    \A s \in Slots :
        (Resolved(s) /\ IsFromSource(s) /\ IdOf(s) \notin grammars)
        => results[s] = None

\* C4: a Language without a grammar config gets None, and the call reaches
\* neither the community query store, nor the default-query table, nor the
\* runtime file loader, nor the query compiler.
C4_NoGrammarNoQuery ==
    \A s \in Slots :
        (Resolved(s) /\ ~HasConfig(s))
        => /\ results[s] = None
           /\ traces[s] = << >>

\* C4 happens: a Language without a grammar config was resolved while the
\* store and the runtime files had something to offer.
C4_Witness ==
    \E s \in Slots :
        /\ Resolved(s) /\ ~HasConfig(s)
        /\ \E id \in GrammarIds : IsSome(highlight_queries[id]) /\ id \in runtime_files

\* What highlight_query owes a Language, from that Language's own config and
\* the outcomes of its own grammar, providers and compilation.
OwnResult(s, compiled) ==
    IF ~HasConfig(s) THEN None
    ELSE IF Community(s) = None THEN DefaultCandidate(s)
    ELSE IF ~GrammarResolves(s) THEN None
    ELSE IF compiled THEN Some(Rewritten[Community(s).val])
    ELSE DefaultCandidate(s)

\* C8: whatever the order of resolution, each Language's result is decided by
\* its own config and its own provider, grammar and compile outcomes: a
\* Language already resolved keeps that result, and a Language still waiting
\* is resolved, to that result, whatever grammar or compile failures the
\* other Languages have met.
C8_FailureIsolation ==
    \A s \in Slots :
        /\ Resolved(s) => results[s] = OwnResult(s, Compiled(s))
        /\ ~Resolved(s) =>
              \A compiles \in BOOLEAN :
                  highlight_query(languages[s], compiles).ret = OwnResult(s, compiles)

FailedToLoad(s) == Resolved(s) /\ \E i \in DOMAIN traces[s] : LoadFailed(traces[s][i])

\* C8 happens: one Language failed on its grammar and got None, and another
\* Language, whose community query did not compile, got its default query.
C8_Witness ==
    \E s, t \in Slots :
        /\ s # t
        /\ FailedToLoad(s) /\ results[s] = None
        /\ Resolved(t) /\ CompileFailed(t) /\ IsSome(results[t])

\* C10: a call of highlight_query compiles at most once, and only the
\* transformed community candidate; the default provider is asked only when
\* the community query is absent or did not compile, it is the last
\* collaborator asked, and what it yields (a query or nothing) is returned
\* as it is, uncompiled.
C10_DefaultIsLastAndTrusted ==
    \A s \in Slots :
        Resolved(s) =>
            /\ Cardinality(CompilerCalls(s)) <= 1
            /\ \A i \in CompilerCalls(s) :
                  /\ HasConfig(s) /\ IsSome(Community(s))
                  /\ traces[s][i].arg = Rewritten[Community(s).val]
            /\ \A i \in DefaultCalls(s) :
                  /\ i = Len(traces[s])
                  /\ results[s] = traces[s][i].ret
                  /\ Community(s) = None \/ CompileFailed(s)
            /\ Compiled(s) => DefaultCalls(s) = { }
            /\ Cardinality(DefaultCalls(s)) <= 1

\* C10 happens: the community query did not compile and the default provider's
\* query was returned; for another Language both providers had nothing.
C10_Witness ==
    \E s, t \in Slots :
        /\ Resolved(s) /\ CompileFailed(s) /\ DefaultCalls(s) # { }
        /\ IsSome(results[s])
        /\ Resolved(t) /\ HasConfig(t) /\ Community(t) = None
        /\ DefaultCalls(t) # { } /\ results[t] = None

----------------------------------------------------------------------------
(* Properties of grammar resolution, checked under SpecGrammar.            *)

LanguageIsCargoLinked ==
    /\ language.tree_sitter_grammar_config # None
    /\ language.tree_sitter_grammar_config.val.kind.tag = "CargoLinked"

\* C9: for every member of CargoLinkedTreesitterLanguage, a Language of kind
\* CargoLinked(member) resolves to the member's grammar handle, whatever its
\* id string and whatever the external loader can load, and
\* tree_sitter_grammar_config returns None for it.
C9_StaticGrammarTotal ==
    LanguageIsCargoLinked =>
        /\ handle # Pending =>
              /\ IsSome(handle)
              /\ handle.val =
                    to_tree_sitter_language(language.tree_sitter_grammar_config.val.kind.language)
        /\ remote # Pending => remote = None

\* C9 happens: the last member of the enum was resolved under an id the
\* loader cannot load.
C9_Witness ==
    /\ LanguageIsCargoLinked
    /\ language.tree_sitter_grammar_config.val.kind.language = "Hcl"
    /\ language.tree_sitter_grammar_config.val.id \notin grammars
    /\ handle = Some("tree_sitter_hcl::LANGUAGE")
    /\ remote = None

----------------------------------------------------------------------------
(* Properties of the text transform, checked under SpecTransform.          *)

Pattern(k) == Substitutions[k][1]

\* The literal p occurs in s at position i.
Occurs(s, p, i) == i + Len(p) - 1 <= Len(s) /\ SubSeq(s, i, i + Len(p) - 1) = p

\* No occurrence of any of the six literals.
NoPattern(s) ==
    \A k \in AllSubstitutions : \A i \in 1 .. Len(s) : ~Occurs(s, Pattern(k), i)

\* The characters the six literals are written with.
PatternChars ==
    UNION { { SubSeq(Pattern(k), j, j) : j \in 1 .. Len(Pattern(k)) } : k \in AllSubstitutions }

\* Every occurrence of one of the six literals starts the text or follows a
\* character that none of the literals contains (a blank, a parenthesis, #).
Delimited(s) ==
    \A k \in AllSubstitutions : \A i \in 1 .. Len(s) :
        Occurs(s, Pattern(k), i)
        => (i = 1 \/ SubSeq(s, i - 1, i - 1) \notin PatternChars)

\* The rewrite read off the raw text in one pass: each occurrence of a
\* literal, as it stands in the raw text, becomes its replacement and every
\* other character is kept.
RECURSIVE OnePass(_)
OnePass(s) ==
    IF s = "" THEN ""
    ELSE IF \E k \in AllSubstitutions : Occurs(s, Pattern(k), 1)
    THEN LET k == CHOOSE j \in AllSubstitutions : Occurs(s, Pattern(j), 1)
         IN  Substitutions[k][2] \o OnePass(SubSeq(s, Len(Pattern(k)) + 1, Len(s)))
    ELSE SubSeq(s, 1, 1) \o OnePass(SubSeq(s, 2, Len(s)))

\* C5, as stated: for every query text, the transform applied to its own
\* output gives the same text as the transform applied once.
C5_Idempotent ==
    IsSome(twice) => twice = once

\* C5, amended: for every query text in which each occurrence of the six
\* literals starts the text or follows a character that none of them
\* contains, the transform applied to its own output gives the same text as
\* the transform applied once.
C5_IdempotentWhenDelimited ==
    (IsSome(twice) /\ Delimited(query)) => twice = once

\* C5 happens: a delimited text was rewritten, and rewriting the result again
\* changed nothing.
C5_Witness ==
    /\ IsSome(twice) /\ Delimited(query)
    /\ ~NoPattern(query) /\ once.val # query
    /\ twice = once

\* C6, as stated: for every query text, the transformed text contains none of
\* lua-match, vim-match, @none, @conceal, @spell, @nospell, and is the raw
\* text with exactly those occurrences replaced or removed.
C6_TransformCorrect ==
    IsSome(once) => (NoPattern(once.val) /\ once.val = OnePass(query))

\* C6, amended: for every query text in which each occurrence of the six
\* literals starts the text or follows a character that none of them
\* contains, the transformed text contains none of the six literals and is
\* the raw text with exactly those occurrences replaced or removed.
C6_TransformCorrectWhenDelimited ==
    (IsSome(once) /\ Delimited(query))
    => (NoPattern(once.val) /\ once.val = OnePass(query))

\* C6 happens: a delimited text holding a predicate spelling and a marker was
\* rewritten.
C6_Witness ==
    /\ IsSome(once) /\ Delimited(query)
    /\ \E i \in 1 .. Len(query) : Occurs(query, "lua-match", i)
    /\ \E i \in 1 .. Len(query) : Occurs(query, "@nospell", i)
    /\ once.val # query /\ NoPattern(once.val)

\* C7, as stated: for every query text, the six substitutions applied in any
\* order give the text that the order of highlight_query_nvim_treesitter gives.
C7_OrderIndependent ==
    (IsSome(once) /\ pending = { }) => text = once.val

\* C7, amended: for every query text in which each occurrence of the six
\* literals starts the text or follows a character that none of them
\* contains, the six substitutions applied in any order give the text that
\* the order of highlight_query_nvim_treesitter gives.
C7_OrderIndependentWhenDelimited ==
    (IsSome(once) /\ pending = { } /\ Delimited(query)) => text = once.val

\* C7 happens: all six substitutions were applied to a delimited text holding
\* two different literals, and the outcome is the transform's.
C7_Witness ==
    /\ IsSome(once) /\ pending = { } /\ Delimited(query)
    /\ \E i \in 1 .. Len(query) : Occurs(query, "vim-match", i)
    /\ \E i \in 1 .. Len(query) : Occurs(query, "@spell", i)
    /\ text = once.val /\ text # query

====
